---- MODULE Spec2Model ----
(***************************************************************************)
(* Model of the sake deploy / shell gulp tasks.                            *)
(*                                                                         *)
(* One node process runs gulp tasks.  A task body runs synchronously when  *)
(* the task is invoked; the asynchronous work it starts (a spawned shell   *)
(* command, an HTTP request, a file read, a task of another module) ends   *)
(* later with an outcome drawn from a small set.  gulp.series and          *)
(* gulp.parallel are modelled as gulp 4 runs them: a series starts its     *)
(* next step when the current one signals success and ends with the first  *)
(* error; a parallel group starts all members, ends with the first error   *)
(* or when all members succeeded, and calls its callback once; an error    *)
(* thrown by a task body or by one of its asynchronous callbacks is the    *)
(* task's error; gulp.series of an empty list throws.                      *)
(***************************************************************************)
EXTENDS Integers, Sequences, FiniteSets, TLC

VARIABLES
  config,        \* the plugin configuration (read only)
  env,           \* the names of the environment variables that are set
  registry,      \* the registered tasks: pairs of a name and a body (the line of its gulp.task call)
  sharedOptions, \* the options object every module was handed
  mergedOptions, \* the object deploy_to_wp_repo assigns to its module's `options`
  rebound,       \* TRUE once the deploy module's `options` names mergedOptions
  pc,            \* "idle" | "call" | "wait" | "ret" | "crashed"
  cur,           \* the task or inline step the main line is at
  res,           \* the value the last completion callback received
  stack,         \* the suspended gulp.series compositions, innermost last
  proc,          \* the command of the child process exec is waiting for ("" if none)
  par,           \* deploy:preflight member -> its state
  parDone,       \* deploy:preflight member -> calls of its completion callback
  parErr,        \* deploy:preflight member -> the value its callback received
  parCount,      \* members of the group still to succeed
  parCalled,     \* the group's callback has been called (it is wrapped in once)
  preflightDone, \* calls of the completion callback of deploy:preflight
  req,           \* version request -> its state
  fetchCalled,   \* async.parallel has called its final callback
  fetchDone,     \* calls of the completion callback of fetch_latest_wp_wc_versions
  ran,           \* the tasks of the command line invoked so far, in order
  top,           \* the task invoked from the command line in the current run
  invoked,       \* the steps started in the current run, in order, with their starter
  failed,        \* the step failures the compositions of the current run observed
  succeeded,     \* the tasks that completed successfully in the current run
  spawned,       \* the commands spawned in the current run
  doneCalls,     \* calls of the top-level task's completion callback in the current run
  doneErr,       \* the value that callback received
  buildCompleted,\* 'build' completed successfully earlier in this process
  releases,      \* the owner/repo each github:create_release of the current run read
  bodyLog,       \* the registered shell task bodies run in the current run
  lastExit,      \* the last exit of a child process the current step has seen
  deployable,    \* what util.isDeployable() returned to deploy ("unread" before the call)
  isWatching,    \* config.isWatching
  lastRun        \* gulp.lastRun('lint:scripts') is set

cfgVars   == <<config, env, registry>>
sessVars  == <<deployable, isWatching, lastRun>>
optVars   == <<sharedOptions, mergedOptions, rebound>>
mainVars  == <<pc, cur, res, stack>>
parVars   == <<par, parDone, parErr, parCount, parCalled, preflightDone>>
fetchVars == <<req, fetchCalled, fetchDone>>
runVars   == <<ran, top, doneCalls, doneErr>>
histVars  == <<invoked, failed, succeeded, spawned, buildCompleted, releases, bodyLog,
               lastExit>>
vars == <<cfgVars, sessVars, optVars, mainVars, proc, parVars, fetchVars, runVars, histVars>>

(***************************************************************************)
(* Bounds                                                                  *)
(***************************************************************************)
\* the most tasks one command line names
MaxArgs == 3

(***************************************************************************)
(* Values                                                                  *)
(***************************************************************************)
\* the exit code the 'exit' event carries when a signal ended the child: null
Null == -1
ExitCodes == {0, 1, 2, Null}

\* an error value; NoErr is the null / undefined a successful callback receives
NoErr == [kind |-> "null", code |-> 0, command |-> ""]
Error(msg) == [kind |-> msg, code |-> 0, command |-> ""]

\* no child process has exited
NoExit == [task |-> "", command |-> "", code |-> 0, via |-> ""]

Last(s) == s[Len(s)]
Front(s) == SubSeq(s, 1, Len(s) - 1)
Range(s) == {s[i] : i \in 1..Len(s)}

(***************************************************************************)
(* Configuration, environment and the options objects                      *)
(***************************************************************************)
DeployTypes == {"wc", "wp", "none"}
Platforms == {"wc", "wp"}
\* config.trelloBoard and config.deploy.production are read only next to
\* config.deploy.type === 'wc' (lines 84 and 184): they vary with that type only
Configs ==
  {c \in [deployType : DeployTypes, trelloBoard : BOOLEAN,
           production : BOOLEAN, platform : Platforms] :
     c.deployType # "wc" => (~c.trelloBoard /\ ~c.production)}
AllEnv == {"GITHUB_API_KEY", "GITHUB_USERNAME", "TRELLO_API_KEY", "TRELLO_API_TOKEN"}
\* every variable set, or exactly one of them unset
EnvChoices == {AllEnv} \cup {AllEnv \ {v} : v \in AllEnv}
\* what the command line may have put in options before any task runs
\* (deployTag, deployAssets); they are read by deploy_to_wp_repo only, so they
\* vary with the deploy type 'wp' only
CliFlags(type) ==
  IF type = "wp" THEN {<<"unset", "unset">>, <<"false", "false">>}
  ELSE {<<"unset", "unset">>}

DevOwner == "dev-owner"
DevName == "dev-repo"
ProductionOwner == "production-owner"
ProductionName == "production-repo"

InitialOptions(flags) ==
  [deploy |-> FALSE, minify |-> FALSE, version |-> "unset",
   owner |-> "unset", repo |-> "unset",
   tested_up_to_wp_version |-> "unset", tested_up_to_wc_version |-> "unset",
   deployTag |-> flags[1], deployAssets |-> flags[2]]

\* the object the deploy module's `options` variable names
options == IF rebound THEN mergedOptions ELSE sharedOptions

\* an assignment options.x = v made by the deploy module: `upd` maps the
\* assigned keys to their values
SetOptions(upd) ==
  LET new == [k \in DOMAIN options |-> IF k \in DOMAIN upd THEN upd[k] ELSE options[k]]
  IN IF rebound
       THEN /\ mergedOptions' = new
            /\ UNCHANGED <<sharedOptions, rebound>>
       ELSE /\ sharedOptions' = new
            /\ UNCHANGED <<mergedOptions, rebound>>

\* a merge that returns the defaults alone
Merge_defaultsOnly(o) ==
  [o EXCEPT !.deploy = FALSE, !.minify = FALSE, !.deployTag = "true",
            !.deployAssets = "true"]

\* _.merge({ deployTag: true, deployAssets: true }, options): a new object
\* holding the defaults overridden by every defined key of options
Merge(o) ==
  [o EXCEPT !.deployTag = IF o.deployTag = "unset" THEN "true" ELSE o.deployTag,
            !.deployAssets = IF o.deployAssets = "unset" THEN "true" ELSE o.deployAssets]

(***************************************************************************)
(* Task registration (src/tasks/shell.js)                                  *)
(***************************************************************************)
\* the gulp.task calls of shell.js in source order: the name, and the line of
\* the call, which identifies the registered body
Registrations ==
  << <<"shell:update_framework", 18>>,
     <<"shell:update_framework_commit", 39>>,
     <<"shell:update_framework_commit", 59>>,
     <<"shell:git_ensure_clean_working_copy", 79>>,
     <<"shell:git_push_update", 96>>,
     <<"shell:git_pull_wc_repo", 108>>,
     <<"shell:git_push_wc_repo", 118>>,
     <<"shell:git_update_wc_repo", 132>>,
     <<"shell:git_stash", 146>>,
     <<"shell:git_stash_apply", 151>>,
     <<"shell:composer_install", 155>> >>

\* a registry that refuses a name it already holds, silently
gulp_task_keepFirst(reg, name, body) ==
  IF \E e \in reg : e[1] = name THEN reg ELSE reg \cup {<<name, body>>}

\* gulp.task(name, body): the registry stores the body under the name, in
\* place of what the name held
gulp_task(reg, name, body) ==
  {e \in reg : e[1] # name} \cup {<<name, body>>}

\* the body the registry holds for a name
Body(reg, name) == (CHOOSE e \in reg : e[1] = name)[2]

RECURSIVE RegisterAll(_, _)
RegisterAll(reg, regs) ==
  IF regs = <<>> THEN reg
  ELSE RegisterAll(gulp_task(reg, Head(regs)[1], Head(regs)[2]), Tail(regs))

(***************************************************************************)
(* Initial state: the modules are loaded, no task has run                  *)
(***************************************************************************)
ParMembers == {"search:wt_update_key", "shell:git_ensure_clean_working_copy",
               "scripts:lint", "styles:lint"}
Requests == {"wp", "wc"}

Init ==
  /\ config \in Configs
  /\ env \in EnvChoices
  /\ registry = RegisterAll({}, Registrations)
  /\ \E flags \in CliFlags(config.deployType) :
       /\ sharedOptions = InitialOptions(flags)
       /\ mergedOptions = InitialOptions(flags)
  /\ rebound = FALSE
  /\ pc = "idle" /\ cur = "" /\ res = NoErr /\ stack = <<>>
  /\ proc = ""
  /\ par = [m \in ParMembers |-> "absent"]
  /\ parDone = [m \in ParMembers |-> 0]
  /\ parErr = [m \in ParMembers |-> NoErr]
  /\ parCount = 0 /\ parCalled = FALSE /\ preflightDone = 0
  /\ req = [r \in Requests |-> "none"]
  /\ fetchCalled = FALSE /\ fetchDone = 0
  /\ ran = <<>> /\ top = "" /\ doneCalls = 0 /\ doneErr = NoErr
  /\ invoked = <<>> /\ failed = <<>> /\ succeeded = {} /\ spawned = {}
  /\ buildCompleted = FALSE /\ releases = <<>> /\ bodyLog = <<>> /\ lastExit = NoExit
  /\ deployable = "unread" /\ isWatching = FALSE /\ lastRun = FALSE

(***************************************************************************)
(* The task runner                                                         *)
(***************************************************************************)
\* the tasks the model invokes from the command line
TopLevelTasks ==
  {"deploy", "deploy:preflight", "deploy_create_releases", "copy_to_wc_repo",
   "update_wc_repo", "copy_to_wp_repo", "shell:update_framework",
   "shell:update_framework_commit", "shell:git_stash", "shell:git_stash_apply",
   "shell:composer_install", "scripts", "lint:scripts", "watch"}

\* the tasks that may follow deploy on a command line
FollowUps == {"copy_to_wc_repo", "copy_to_wp_repo", "update_wc_repo"}

\* the tasks a run of scripts may follow in one process
ScriptsStarters == {"scripts", "lint:scripts", "watch"}

\* the command lines (gulp --series): one task, or deploy followed by distinct
\* tasks of FollowUps, or scripts run again after a task of ScriptsStarters;
\* the next task is invoked when the one before it has completed without an
\* error, and an error ends the process; while watching, a file change runs
\* scripts again whatever the run before it ended with
CanInvoke(t) ==
  IF ran = <<>> THEN t \in TopLevelTasks
  ELSE /\ Len(ran) < MaxArgs
       /\ \/ /\ ran[1] = "deploy" /\ t \in FollowUps \ Range(ran)
             /\ doneErr = NoErr
          \/ /\ ran[1] \in ScriptsStarters /\ t = "scripts"
             /\ (doneErr = NoErr \/ isWatching)

\* the command line invokes a task; the histories of the run start empty
Invoke(t) ==
  /\ pc = "idle" /\ CanInvoke(t)
  /\ ran' = Append(ran, t) /\ top' = t
  /\ doneCalls' = 0 /\ doneErr' = NoErr
  /\ pc' = "call" /\ cur' = t /\ res' = NoErr /\ stack' = <<>>
  /\ invoked' = <<[by |-> "cli", step |-> t]>>
  /\ failed' = <<>> /\ succeeded' = {} /\ spawned' = {}
  /\ releases' = <<>> /\ bodyLog' = <<>> /\ lastExit' = NoExit
  /\ par' = [m \in ParMembers |-> "absent"]
  /\ parDone' = [m \in ParMembers |-> 0]
  /\ parErr' = [m \in ParMembers |-> NoErr]
  /\ parCount' = 0 /\ parCalled' = FALSE /\ preflightDone' = 0
  /\ UNCHANGED <<cfgVars, sessVars, optVars, proc, fetchVars, buildCompleted>>

\* gulp.series(steps)(done) called by the body of `task`: an empty list makes
\* gulp.series throw, which fails `task`; otherwise the first step is started
RunSeries(task, steps) ==
  IF steps = <<>>
    THEN /\ pc' = "ret"
         /\ res' = Error("One or more tasks should be combined using series or parallel")
         /\ UNCHANGED <<cur, stack, invoked>>
    ELSE /\ stack' = Append(stack, [task |-> task, steps |-> steps, pos |-> 1])
         /\ cur' = steps[1] /\ pc' = "call" /\ res' = NoErr
         /\ invoked' = Append(invoked, [by |-> task, step |-> steps[1]])

\* a task body throws: the runner hands the error to the task's callback
Throw(err) ==
  /\ pc' = "ret" /\ res' = err
  /\ UNCHANGED <<cur, stack, invoked>>

\* a series that goes on with the next step after a failed one
SeriesAbort_settle ==
  /\ pc = "ret" /\ stack # <<>> /\ res # NoErr
  /\ failed' = Append(failed, [by |-> Last(stack).task, step |-> cur, err |-> res])
  /\ LET f == Last(stack)
     IN IF f.pos < Len(f.steps)
          THEN /\ stack' = [stack EXCEPT ![Len(stack)].pos = f.pos + 1]
               /\ cur' = f.steps[f.pos + 1] /\ pc' = "call" /\ res' = NoErr
               /\ invoked' = Append(invoked, [by |-> f.task, step |-> f.steps[f.pos + 1]])
          ELSE /\ stack' = Front(stack) /\ cur' = f.task
               /\ UNCHANGED <<pc, res, invoked>>
  /\ UNCHANGED <<cfgVars, sessVars, optVars, proc, parVars, fetchVars, runVars>>
  /\ UNCHANGED <<succeeded, spawned, buildCompleted, releases, bodyLog>>
  /\ lastExit' = NoExit

\* the current step signalled an error: the series is over, its callback gets the error
SeriesAbort ==
  /\ pc = "ret" /\ stack # <<>> /\ res # NoErr
  /\ failed' = Append(failed, [by |-> Last(stack).task, step |-> cur, err |-> res])
  /\ stack' = Front(stack) /\ cur' = Last(stack).task
  /\ UNCHANGED <<pc, res>>
  /\ UNCHANGED <<cfgVars, sessVars, optVars, proc, parVars, fetchVars, runVars>>
  /\ UNCHANGED <<invoked, succeeded, spawned, buildCompleted, releases, bodyLog>>
  /\ lastExit' = NoExit

\* the current step signalled success and is not the last: the next one starts
SeriesAdvance ==
  /\ pc = "ret" /\ stack # <<>> /\ res = NoErr
  /\ Last(stack).pos < Len(Last(stack).steps)
  /\ LET f == Last(stack)
     IN /\ stack' = [stack EXCEPT ![Len(stack)].pos = f.pos + 1]
        /\ cur' = f.steps[f.pos + 1] /\ pc' = "call"
        /\ invoked' = Append(invoked, [by |-> f.task, step |-> f.steps[f.pos + 1]])
  /\ succeeded' = succeeded \cup {cur}
  /\ UNCHANGED <<res, cfgVars, sessVars, optVars, proc, parVars, fetchVars, runVars>>
  /\ UNCHANGED <<failed, spawned, buildCompleted, releases, bodyLog>>
  /\ lastExit' = NoExit

\* the last step signalled success: the series calls its callback without an error
SeriesFinish ==
  /\ pc = "ret" /\ stack # <<>> /\ res = NoErr
  /\ Last(stack).pos = Len(Last(stack).steps)
  /\ stack' = Front(stack) /\ cur' = Last(stack).task
  /\ succeeded' = succeeded \cup {cur}
  /\ UNCHANGED <<pc, res, cfgVars, sessVars, optVars, proc, parVars, fetchVars, runVars>>
  /\ UNCHANGED <<invoked, failed, spawned, buildCompleted, releases, bodyLog>>
  /\ lastExit' = NoExit

\* the completion callback of the task invoked from the command line
TaskDone ==
  /\ pc = "ret" /\ stack = <<>>
  /\ doneCalls' = doneCalls + 1 /\ doneErr' = res
  /\ succeeded' = IF res = NoErr THEN succeeded \cup {cur} ELSE succeeded
  /\ pc' = "idle"
  /\ UNCHANGED <<cur, res, stack, ran, top>>
  /\ UNCHANGED <<cfgVars, sessVars, optVars, proc, parVars, fetchVars>>
  /\ UNCHANGED <<invoked, failed, spawned, buildCompleted, releases, bodyLog, lastExit>>

restHist == <<failed, succeeded, spawned, buildCompleted, releases, bodyLog, lastExit>>

(***************************************************************************)
(* Tasks of other modules, and lib/utilities                               *)
(***************************************************************************)
\* util.validateEnvironmentVariables(variables): throws when one is not set
validateEnvironmentVariables(variables) ==
  IF variables \subseteq env THEN NoErr
  ELSE Error("Required environment variables are missing")

\* tasks registered by modules that are not part of the source at hand: each is
\* an operation that ends with success or with an error
ExternalTasks ==
  {"bump", "bump:minreqs", "prompt:deploy", "clean:prerelease", "build",
   "github:get_rissue", "github:get_wc_issues", "compress",
   "github:create_release", "trello:update_wc_card", "github:docs_issue",
   "clean:wc_repo", "copy:wc_repo", "shell:svn_checkout", "clean:wp_trunk",
   "copy:wp_trunk", "shell:svn_commit_trunk", "copy:wp_tag",
   "shell:svn_commit_tag", "clean:wp_assets", "copy:wp_assets",
   "shell:svn_commit_assets", "lint:scripts", "compile:scripts"}

\* the values the deploy prompt may leave in options.version
Versions == {"skip", "1.0.1"}

\* an external task starts; github:create_release reads owner and repo from the
\* options object its own module was handed
ExternalStart ==
  /\ pc = "call" /\ cur \in ExternalTasks
  /\ pc' = "wait"
  /\ releases' = IF cur = "github:create_release"
                   THEN Append(releases, [owner |-> sharedOptions.owner,
                                          repo |-> sharedOptions.repo])
                   ELSE releases
  /\ UNCHANGED <<cur, res, stack, cfgVars, sessVars, optVars, proc, parVars, fetchVars, runVars>>
  /\ UNCHANGED <<invoked, failed, succeeded, spawned, buildCompleted, bodyLog, lastExit>>

\* an external task (or the stream of replace:version) ends; the prompt leaves
\* the answer in options.version; gulp records the last run of a task that
\* ended without an error and forgets it when the task ends with one
ExternalDone(ok) ==
  /\ pc = "wait" /\ cur \in ExternalTasks \cup {"replace:version"}
  /\ pc' = "ret"
  /\ res' = IF ok THEN NoErr ELSE Error("failed: " \o cur)
  /\ IF ok /\ cur = "prompt:deploy"
       THEN \E v \in Versions : sharedOptions' = [sharedOptions EXCEPT !.version = v]
       ELSE UNCHANGED sharedOptions
  /\ buildCompleted' = (buildCompleted \/ (ok /\ cur = "build"))
  /\ lastRun' = (IF cur = "lint:scripts" THEN ok ELSE lastRun)
  /\ UNCHANGED <<cur, stack, cfgVars, deployable, isWatching, mergedOptions, rebound, proc, parVars, fetchVars, runVars>>
  /\ UNCHANGED <<invoked, failed, succeeded, spawned, releases, bodyLog, lastExit>>

(***************************************************************************)
(* The deploy tasks (src/unnamed/part_001)                                 *)
(***************************************************************************)
validatedEnvVariables == FALSE

\* the error validateEnvVariables() throws, or NoErr.  Array.prototype.concat
\* returns a new array and leaves `variables` as it was, and the result of
\* the call at line 22 is dropped
validateEnvVariables ==
  IF validatedEnvVariables THEN NoErr
  ELSE LET variables == {"GITHUB_API_KEY", "GITHUB_USERNAME"}
       IN validateEnvironmentVariables(variables)

\* a step list that makes the zip before the commit is pushed
DeployTasks_compressFirst ==
  <<"deploy:preflight", "bump", "fetch_latest_wp_wc_versions", "bump:minreqs",
    "prompt:deploy", "inline:skip_check", "replace:version", "clean:prerelease",
    "build", "github:get_rissue", "github:get_wc_issues", "compress",
    "shell:git_push_update", "deploy_to_production_repo",
    "inline:rebuildPluginConfig", "deploy_create_releases">>
  \o (IF config.trelloBoard /\ config.deployType = "wc"
        THEN <<"trello:update_wc_card">> ELSE <<>>)
  \o <<"github:docs_issue">>

DeployTasks ==
  <<"deploy:preflight", "bump", "fetch_latest_wp_wc_versions", "bump:minreqs",
    "prompt:deploy", "inline:skip_check", "replace:version", "clean:prerelease",
    "build", "github:get_rissue", "github:get_wc_issues", "shell:git_push_update",
    "deploy_to_production_repo", "inline:rebuildPluginConfig", "compress",
    "deploy_create_releases">>
  \o (IF config.trelloBoard /\ config.deployType = "wc"
        THEN <<"trello:update_wc_card">> ELSE <<>>)
  \o <<"github:docs_issue">>

\* a deploy that sets the flags before it checks anything
deploy_flagsFirst ==
  /\ pc = "call" /\ cur = "deploy"
  /\ SetOptions([deploy |-> TRUE, minify |-> TRUE])
  /\ \E isDeployable \in BOOLEAN :
       IF validateEnvVariables # NoErr
         THEN Throw(validateEnvVariables) /\ UNCHANGED deployable
       ELSE /\ deployable' = (IF isDeployable THEN "yes" ELSE "no")
            /\ IF ~isDeployable
                 THEN Throw(Error("Plugin is not deployable"))
                 ELSE RunSeries("deploy", DeployTasks)
  /\ UNCHANGED <<cfgVars, isWatching, lastRun, proc, parVars, fetchVars, runVars, restHist>>

deploy ==
  /\ pc = "call" /\ cur = "deploy"
  /\ \E isDeployable \in BOOLEAN :
       IF validateEnvVariables # NoErr
         THEN Throw(validateEnvVariables) /\ UNCHANGED <<optVars, deployable>>
       ELSE /\ deployable' = (IF isDeployable THEN "yes" ELSE "no")
            /\ IF ~isDeployable
                 THEN Throw(Error("Plugin is not deployable")) /\ UNCHANGED optVars
                 ELSE /\ SetOptions([deploy |-> TRUE, minify |-> TRUE])
                      /\ RunSeries("deploy", DeployTasks)
  /\ UNCHANGED <<cfgVars, isWatching, lastRun, proc, parVars, fetchVars, runVars, restHist>>

\* the inline step calling cb() where it should end the deploy
skip_check_cb ==
  /\ pc = "call" /\ cur = "inline:skip_check"
  /\ pc' = "ret" /\ res' = NoErr
  /\ UNCHANGED <<cur, stack>>
  /\ UNCHANGED <<cfgVars, sessVars, optVars, proc, parVars, fetchVars, runVars, histVars>>

\* the inline step after prompt:deploy: done() is the callback of the deploy
\* task itself, cb() the one of the step
skip_check ==
  /\ pc = "call" /\ cur = "inline:skip_check"
  /\ IF options.version = "skip"
       THEN /\ stack' = Front(stack) /\ cur' = Last(stack).task
            /\ pc' = "ret" /\ res' = NoErr
       ELSE /\ pc' = "ret" /\ res' = NoErr
            /\ UNCHANGED <<cur, stack>>
  /\ UNCHANGED <<cfgVars, sessVars, optVars, proc, parVars, fetchVars, runVars, histVars>>

rebuildPluginConfig ==
  /\ pc = "call" /\ cur = "inline:rebuildPluginConfig"
  /\ pc' = "ret" /\ res' = NoErr
  /\ UNCHANGED <<cur, stack, cfgVars, sessVars, optVars, proc, parVars, fetchVars, runVars, histVars>>

\* replace:version throws without a version bump, else returns its stream
replace_version ==
  /\ pc = "call" /\ cur = "replace:version"
  /\ \E versionBump \in BOOLEAN :
       IF ~versionBump
         THEN Throw(Error("No version replacement specified"))
         ELSE pc' = "wait" /\ UNCHANGED <<cur, res, stack, invoked>>
  /\ UNCHANGED <<cfgVars, sessVars, optVars, proc, parVars, fetchVars, runVars, restHist>>

\* a step list that always creates the production release
CreateReleasesTasks_always ==
  <<"inline:set_dev_repo", "github:create_release",
    "inline:set_production_repo", "github:create_release">>

CreateReleasesTasks ==
  <<"inline:set_dev_repo", "github:create_release">>
  \o (IF config.deployType = "wc" /\ config.production
        THEN <<"inline:set_production_repo", "github:create_release">>
        ELSE <<>>)

deploy_create_releases ==
  /\ pc = "call" /\ cur = "deploy_create_releases"
  /\ RunSeries("deploy_create_releases", CreateReleasesTasks)
  /\ UNCHANGED <<cfgVars, sessVars, optVars, proc, parVars, fetchVars, runVars, restHist>>

set_dev_repo ==
  /\ pc = "call" /\ cur = "inline:set_dev_repo"
  /\ SetOptions([owner |-> DevOwner, repo |-> DevName])
  /\ pc' = "ret" /\ res' = NoErr
  /\ UNCHANGED <<cur, stack, cfgVars, sessVars, proc, parVars, fetchVars, runVars, histVars>>

set_production_repo ==
  /\ pc = "call" /\ cur = "inline:set_production_repo"
  /\ SetOptions([owner |-> ProductionOwner, repo |-> ProductionName])
  /\ pc' = "ret" /\ res' = NoErr
  /\ UNCHANGED <<cur, stack, cfgVars, sessVars, proc, parVars, fetchVars, runVars, histVars>>

ProductionRepoTasks ==
  IF config.deployType = "wc" THEN <<"deploy_to_wc_repo">>
  ELSE IF config.deployType = "wp" THEN <<"deploy_to_wp_repo">>
  ELSE <<>>

deploy_to_production_repo ==
  /\ pc = "call" /\ cur = "deploy_to_production_repo"
  /\ RunSeries("deploy_to_production_repo", ProductionRepoTasks)
  /\ UNCHANGED <<cfgVars, sessVars, optVars, proc, parVars, fetchVars, runVars, restHist>>

deploy_to_wc_repo ==
  /\ pc = "call" /\ cur = "deploy_to_wc_repo"
  /\ IF validateEnvVariables # NoErr
       THEN Throw(validateEnvVariables)
       ELSE RunSeries("deploy_to_wc_repo", <<"copy_to_wc_repo", "shell:git_push_wc_repo">>)
  /\ UNCHANGED <<cfgVars, sessVars, optVars, proc, parVars, fetchVars, runVars, restHist>>

\* the step list with 'build' dropped when options.deploy is set
CopyToWcRepoTasks ==
  LET tasks == <<"build", "shell:git_pull_wc_repo", "clean:wc_repo", "copy:wc_repo">>
  IN IF options.deploy THEN Tail(tasks) ELSE tasks

copy_to_wc_repo ==
  /\ pc = "call" /\ cur = "copy_to_wc_repo"
  /\ IF validateEnvVariables # NoErr
       THEN Throw(validateEnvVariables)
       ELSE RunSeries("copy_to_wc_repo", CopyToWcRepoTasks)
  /\ UNCHANGED <<cfgVars, sessVars, optVars, proc, parVars, fetchVars, runVars, restHist>>

update_wc_repo ==
  /\ pc = "call" /\ cur = "update_wc_repo"
  /\ IF validateEnvVariables # NoErr
       THEN Throw(validateEnvVariables)
       ELSE RunSeries("update_wc_repo", <<"copy_to_wc_repo", "shell:git_update_wc_repo">>)
  /\ UNCHANGED <<cfgVars, sessVars, optVars, proc, parVars, fetchVars, runVars, restHist>>

\* the step list deploy_to_wp_repo builds from the merged options `o`
WpRepoTasks(o) ==
  <<"copy_to_wp_repo", "shell:svn_commit_trunk">>
  \o (IF o.deployTag = "true" THEN <<"copy:wp_tag", "shell:svn_commit_tag">> ELSE <<>>)
  \o (IF o.deployAssets = "true"
        THEN <<"clean:wp_assets", "copy:wp_assets", "shell:svn_commit_assets">>
        ELSE <<>>)

\* `options = _.merge({...}, options)` assigns a new object to the variable of
\* this module; the other modules keep the object they were handed
deploy_to_wp_repo ==
  /\ pc = "call" /\ cur = "deploy_to_wp_repo"
  /\ mergedOptions' = Merge(options)
  /\ rebound' = TRUE
  /\ UNCHANGED sharedOptions
  /\ RunSeries("deploy_to_wp_repo", WpRepoTasks(Merge(options)))
  /\ UNCHANGED <<cfgVars, sessVars, proc, parVars, fetchVars, runVars, restHist>>

CopyToWpRepoTasks ==
  LET tasks == <<"build", "shell:svn_checkout", "clean:wp_trunk", "copy:wp_trunk">>
  IN IF options.deploy THEN Tail(tasks) ELSE tasks

copy_to_wp_repo ==
  /\ pc = "call" /\ cur = "copy_to_wp_repo"
  /\ RunSeries("copy_to_wp_repo", CopyToWpRepoTasks)
  /\ UNCHANGED <<cfgVars, sessVars, optVars, proc, parVars, fetchVars, runVars, restHist>>

(***************************************************************************)
(* The shell tasks (src/tasks/shell.js)                                    *)
(***************************************************************************)
\* a command value: a string, or an array of strings (text is the array as
\* string concatenation renders it, its elements joined by ",")
RECURSIVE JoinWith(_, _)
JoinWith(parts, sep) ==
  IF parts = <<>> THEN ""
  ELSE IF Len(parts) = 1 THEN parts[1]
  ELSE parts[1] \o sep \o JoinWith(Tail(parts), sep)

Str(text) == [type |-> "string", text |-> text]
Arr(parts) == [type |-> "array", text |-> JoinWith(parts, ",")]
\* [...].join(' && ')
join(parts) == Str(JoinWith(parts, " && "))

\* an error message that leaves the command out
execOnExit_noCommand(code, command) ==
  IF code > 0
    THEN [kind |-> "Command failed", code |-> code, command |-> ""]
    ELSE NoErr

\* the value exec's 'exit' handler passes to done; null > 0 is false
execOnExit(code, command) ==
  IF code > 0
    THEN [kind |-> "Command failed", code |-> code, command |-> command]
    ELSE NoErr

\* !code
Falsy(code) == code = 0 \/ code = Null

\* exec(command, done) up to the spawn: spawn throws unless the command is a string
exec(command) ==
  IF command.type = "string"
    THEN /\ proc' = command.text
         /\ spawned' = spawned \cup {command.text}
         /\ pc' = "wait"
         /\ UNCHANGED <<cur, res, stack, invoked>>
    ELSE /\ Throw(Error("TypeError: The file argument must be of type string"))
         /\ UNCHANGED <<proc, spawned>>

\* the child process exec waits for exits
ExecExit(code) ==
  /\ pc = "wait" /\ proc # ""
  /\ res' = execOnExit(code, proc)
  /\ pc' = "ret" /\ proc' = ""
  /\ lastExit' = [task |-> cur, command |-> proc, code |-> code,
                 via |-> "exec"]
  /\ UNCHANGED <<cur, stack, cfgVars, sessVars, optVars, parVars, fetchVars, runVars>>
  /\ UNCHANGED <<invoked, failed, succeeded, spawned, buildCompleted, releases, bodyLog>>

shellFrame == <<cfgVars, sessVars, optVars, parVars, fetchVars, runVars, failed, succeeded,
                buildCompleted, releases, lastExit>>

shell_update_framework ==
  /\ pc = "call" /\ cur = "shell:update_framework"
  /\ bodyLog' = Append(bodyLog, Body(registry, cur))
  /\ \E exists \in BOOLEAN :
       exec(IF exists
              THEN join(<<"git fetch wc-plugin-framework master", "git status",
                          "echo subtree up to date!">>)
              ELSE Str("echo no subtree to update"))
  /\ UNCHANGED shellFrame

shell_update_framework_commit ==
  /\ pc = "call" /\ cur = "shell:update_framework_commit"
  /\ bodyLog' = Append(bodyLog, Body(registry, cur))
  /\ \E exists \in BOOLEAN :
       exec(IF exists
              THEN join(<<"git add -A",
                          "git diff-index --quiet --cached HEAD || git commit -m 'Update framework'">>)
              ELSE Arr(<<"git add -A",
                         "git diff-index --quiet --cached HEAD || git commit -m 'Update readme.txt'">>))
  /\ UNCHANGED shellFrame

shell_git_push_update ==
  /\ pc = "call" /\ cur = "shell:git_push_update"
  /\ bodyLog' = Append(bodyLog, Body(registry, cur))
  /\ exec(join(<<"git add -A", "git commit -m 'Versioning'", "git push",
                 "echo git up to date!">>))
  /\ UNCHANGED shellFrame

shell_git_pull_wc_repo ==
  /\ pc = "call" /\ cur = "shell:git_pull_wc_repo"
  /\ bodyLog' = Append(bodyLog, Body(registry, cur))
  /\ exec(join(<<"cd wc-repo", "git pull && git push">>))
  /\ UNCHANGED shellFrame

shell_git_push_wc_repo ==
  /\ pc = "call" /\ cur = "shell:git_push_wc_repo"
  /\ bodyLog' = Append(bodyLog, Body(registry, cur))
  /\ exec(join(<<"cd wc-repo", "git pull", "git add -A", "git commit -m 'Update'",
                 "git push">>))
  /\ UNCHANGED shellFrame

shell_git_update_wc_repo ==
  /\ pc = "call" /\ cur = "shell:git_update_wc_repo"
  /\ bodyLog' = Append(bodyLog, Body(registry, cur))
  /\ exec(join(<<"cd wc-repo", "git pull", "git add -A",
                 "git diff-index --quiet --cached HEAD || git commit -m 'Updating'",
                 "git push", "echo WooCommerce repo up to date!">>))
  /\ UNCHANGED shellFrame

shell_git_stash ==
  /\ pc = "call" /\ cur = "shell:git_stash"
  /\ bodyLog' = Append(bodyLog, Body(registry, cur))
  /\ exec(Str("git stash"))
  /\ UNCHANGED shellFrame

shell_git_stash_apply ==
  /\ pc = "call" /\ cur = "shell:git_stash_apply"
  /\ bodyLog' = Append(bodyLog, Body(registry, cur))
  /\ exec(Str("git stash apply"))
  /\ UNCHANGED shellFrame

shell_composer_install ==
  /\ pc = "call" /\ cur = "shell:composer_install"
  /\ bodyLog' = Append(bodyLog, Body(registry, cur))
  /\ \E exists \in BOOLEAN :
       IF exists
         THEN exec(Str("composer install"))
         ELSE /\ pc' = "ret" /\ res' = NoErr
              /\ UNCHANGED <<cur, stack, invoked, proc, spawned>>
  /\ UNCHANGED shellFrame

(***************************************************************************)
(* deploy:preflight and its members                                        *)
(***************************************************************************)
PreflightTasks ==
  (IF config.deployType = "wc" THEN <<"search:wt_update_key">> ELSE <<>>)
  \o <<"shell:git_ensure_clean_working_copy", "scripts:lint", "styles:lint">>

\* gulp.parallel(tasks)(done): every member is started before any of them can
\* complete
deploy_preflight ==
  /\ pc = "call" /\ cur = "deploy:preflight"
  /\ par' = [m \in ParMembers |->
               IF m \in Range(PreflightTasks) THEN "invoked" ELSE "absent"]
  /\ parCount' = Len(PreflightTasks)
  /\ parCalled' = FALSE
  /\ pc' = "wait"
  /\ UNCHANGED <<cur, res, stack, parDone, parErr, preflightDone>>
  /\ UNCHANGED <<cfgVars, sessVars, optVars, proc, fetchVars, runVars, histVars>>

\* a group callback that is not wrapped in once
GroupDone_noOnce(err) ==
  /\ parCalled' = TRUE
  /\ preflightDone' = preflightDone + 1
  /\ pc' = "ret" /\ res' = err

\* the callback of the group, wrapped in once: the first call completes
\* deploy:preflight
GroupDone(err) ==
  IF parCalled
    THEN UNCHANGED <<parCalled, preflightDone, pc, res>>
    ELSE /\ parCalled' = TRUE
         /\ preflightDone' = preflightDone + 1
         /\ pc' = "ret" /\ res' = err

\* member m calls its completion callback with err: an error ends the group
\* at once, a success ends it when it is the last one awaited
MemberDone(m, err) ==
  /\ par' = [par EXCEPT ![m] = IF err = NoErr THEN "ok" ELSE "failed"]
  /\ parDone' = [parDone EXCEPT ![m] = @ + 1]
  /\ parErr' = [parErr EXCEPT ![m] = err]
  /\ IF err # NoErr
       THEN /\ parCount' = parCount
            /\ GroupDone(err)
       ELSE /\ parCount' = parCount - 1
            /\ IF parCount - 1 = 0
                 THEN GroupDone(NoErr)
                 ELSE UNCHANGED <<parCalled, preflightDone, pc, res>>

AllStarted == \A m \in ParMembers : par[m] # "invoked"

\* the bodies of the members run in the order of the list
IsNext(m) ==
  \E i \in 1..Len(PreflightTasks) :
    /\ PreflightTasks[i] = m /\ par[m] = "invoked"
    /\ \A j \in 1..(i - 1) : par[PreflightTasks[j]] # "invoked"

parFrame == <<cur, stack, cfgVars, sessVars, optVars, proc, fetchVars, runVars, invoked, failed,
              succeeded, buildCompleted, releases>>

\* a completion event of asynchronous work is handled when the main line is
\* not in the middle of a callback chain
Quiet == pc \in {"wait", "idle"}

shell_git_ensure_clean_working_copy ==
  /\ pc = "wait"
  /\ IsNext("shell:git_ensure_clean_working_copy")
  /\ par' = [par EXCEPT !["shell:git_ensure_clean_working_copy"] = "running"]
  /\ spawned' = spawned \cup {"git diff-index --quiet HEAD --"}
  /\ bodyLog' = Append(bodyLog, Body(registry, "shell:git_ensure_clean_working_copy"))
  /\ UNCHANGED <<pc, res, parDone, parErr, parCount, parCalled, preflightDone>>
  /\ UNCHANGED <<parFrame, lastExit>>

\* the 'exit' handler of git diff-index
GitDiffIndexExit(code) ==
  /\ Quiet /\ AllStarted
  /\ par["shell:git_ensure_clean_working_copy"] = "running"
  /\ lastExit' = [task |-> "shell:git_ensure_clean_working_copy",
                  command |-> "git diff-index --quiet HEAD --",
                  code |-> code, via |-> "spawn"]
  /\ IF Falsy(code)
       THEN /\ MemberDone("shell:git_ensure_clean_working_copy", NoErr)
            /\ UNCHANGED spawned
       ELSE /\ par' = [par EXCEPT !["shell:git_ensure_clean_working_copy"] = "status"]
            /\ spawned' = spawned \cup {"git status"}
            /\ UNCHANGED <<pc, res, parDone, parErr, parCount, parCalled, preflightDone>>
  /\ UNCHANGED <<parFrame, bodyLog>>

\* git status exits, and the task is given exec's own result
GitStatusExit_passErr(code) ==
  /\ Quiet /\ AllStarted
  /\ par["shell:git_ensure_clean_working_copy"] = "status"
  /\ lastExit' = [task |-> "shell:git_ensure_clean_working_copy",
                  command |-> "git status", code |-> code, via |-> "exec"]
  /\ MemberDone("shell:git_ensure_clean_working_copy", execOnExit(code, "git status"))
  /\ UNCHANGED <<parFrame, spawned, bodyLog>>

\* git status exits: the callback given to exec drops exec's own result
GitStatusExit(code) ==
  /\ Quiet /\ AllStarted
  /\ par["shell:git_ensure_clean_working_copy"] = "status"
  /\ lastExit' = [task |-> "shell:git_ensure_clean_working_copy",
                  command |-> "git status", code |-> code, via |-> "exec"]
  /\ MemberDone("shell:git_ensure_clean_working_copy",
                Error("Working copy is not clean!"))
  /\ UNCHANGED <<parFrame, spawned, bodyLog>>

search_wt_update_key ==
  /\ pc = "wait"
  /\ IsNext("search:wt_update_key")
  /\ par' = [par EXCEPT !["search:wt_update_key"] = "running"]
  /\ UNCHANGED <<pc, res, parDone, parErr, parCount, parCalled, preflightDone>>
  /\ UNCHANGED <<parFrame, spawned, bodyLog, lastExit>>

ReadOutcomes == {"error", "no match", "match"}

\* the fs.readFile callback: it throws on a read error and when the updater
\* keys are not found
ReadFileDone(outcome) ==
  /\ Quiet /\ AllStarted
  /\ par["search:wt_update_key"] = "running"
  /\ MemberDone("search:wt_update_key",
                IF outcome = "error" THEN Error("readFile failed")
                ELSE IF outcome = "no match"
                  THEN Error("WooThemes updater keys for the plugin have not been properly set ;(")
                ELSE NoErr)
  /\ UNCHANGED <<parFrame, spawned, bodyLog, lastExit>>

LintTasks == {"scripts:lint", "styles:lint"}

LintStart(m) ==
  /\ pc = "wait"
  /\ IsNext(m)
  /\ par' = [par EXCEPT ![m] = "running"]
  /\ UNCHANGED <<pc, res, parDone, parErr, parCount, parCalled, preflightDone>>
  /\ UNCHANGED <<parFrame, spawned, bodyLog, lastExit>>

LintDone(m, ok) ==
  /\ Quiet /\ AllStarted
  /\ par[m] = "running"
  /\ MemberDone(m, IF ok THEN NoErr ELSE Error("failed: " \o m))
  /\ UNCHANGED <<parFrame, spawned, bodyLog, lastExit>>

(***************************************************************************)
(* fetch_latest_wp_wc_versions                                             *)
(***************************************************************************)
fetch_latest_wp_wc_versions ==
  /\ pc = "call" /\ cur = "fetch_latest_wp_wc_versions"
  /\ req' = [r \in Requests |->
               IF r = "wp" \/ config.platform = "wc" THEN "pending" ELSE "none"]
  /\ fetchCalled' = FALSE
  /\ pc' = "wait"
  /\ UNCHANGED <<cur, res, stack, fetchDone>>
  /\ UNCHANGED <<cfgVars, sessVars, optVars, proc, parVars, runVars, histVars>>

\* done() of the task: the runner acts on the first completion only
FetchTaskDone(err) ==
  IF fetchDone = 0
    THEN /\ fetchDone' = 1
         /\ pc' = "ret" /\ res' = err
    ELSE UNCHANGED <<fetchDone, pc, res>>

\* the final callback of async.parallel, called once: it logs an error and
\* calls done() without it
FinalCallback(err) ==
  IF fetchCalled
    THEN UNCHANGED <<fetchCalled, fetchDone, pc, res>>
    ELSE /\ fetchCalled' = TRUE
         /\ FetchTaskDone(NoErr)

VersionKey(r) ==
  IF r = "wp" THEN "tested_up_to_wp_version" ELSE "tested_up_to_wc_version"

ResponseKinds == {"error", "empty", "body", "malformed"}

\* the callback of request r: a transport error, no body, a body that parses,
\* or a body JSON.parse or the property access throws on
RequestDone(r, kind) ==
  /\ Quiet
  /\ req[r] = "pending"
  /\ IF kind = "error"
       THEN /\ req' = [req EXCEPT ![r] = "failed"]
            /\ FinalCallback(Error("request failed: " \o r))
            /\ UNCHANGED optVars
     ELSE IF kind = "malformed"
       THEN /\ req' = [req EXCEPT ![r] = "threw"]
            /\ UNCHANGED <<optVars, fetchCalled>>
            /\ IF fetchDone = 0
                 THEN FetchTaskDone(Error("SyntaxError: Unexpected token in JSON"))
                 ELSE pc' = "crashed" /\ UNCHANGED <<fetchDone, res>>
     ELSE /\ req' = [req EXCEPT ![r] = "ok"]
          /\ IF kind = "body"
               THEN SetOptions([k \in {VersionKey(r)} |-> "fetched"])
               ELSE UNCHANGED optVars
          /\ IF \A q \in Requests \ {r} : req[q] \in {"none", "ok"}
               THEN FinalCallback(NoErr)
               ELSE UNCHANGED <<fetchCalled, fetchDone, pc, res>>
  /\ UNCHANGED <<cur, stack, cfgVars, sessVars, proc, parVars, runVars, histVars>>

(***************************************************************************)
(* The scripts task (src/unnamed/part_001, second module)                  *)
(***************************************************************************)
\* a step list that drops the lint whenever it has run, watching or not
ScriptsTasks_ignoreWatching ==
  LET tasks == <<"lint:scripts", "compile:scripts">>
  IN IF lastRun THEN Tail(tasks) ELSE tasks

\* the step list with 'lint:scripts' dropped when it has run and nothing is
\* being watched
ScriptsTasks ==
  LET tasks == <<"lint:scripts", "compile:scripts">>
  IN IF ~isWatching /\ lastRun THEN Tail(tasks) ELSE tasks

scripts ==
  /\ pc = "call" /\ cur = "scripts"
  /\ RunSeries("scripts", ScriptsTasks)
  /\ UNCHANGED <<cfgVars, sessVars, optVars, proc, parVars, fetchVars, runVars, restHist>>

\* the watch task: it marks the configuration as watching; from then on a
\* file change runs scripts
watch ==
  /\ pc = "call" /\ cur = "watch"
  /\ isWatching' = TRUE
  /\ pc' = "ret" /\ res' = NoErr
  /\ UNCHANGED <<cur, stack, cfgVars, deployable, lastRun, optVars, proc, parVars,
                 fetchVars, runVars, histVars>>

(***************************************************************************)
(* Specification                                                           *)
(***************************************************************************)
\* what the process does once a task has been invoked: the steps of the
\* runner and of the task bodies, and the completions of the work they started
Step ==
  \/ SeriesAbort \/ SeriesAdvance \/ SeriesFinish \/ TaskDone
  \/ ExternalStart
  \/ \E ok \in BOOLEAN : ExternalDone(ok)
  \/ deploy \/ skip_check \/ rebuildPluginConfig \/ replace_version
  \/ deploy_create_releases \/ set_dev_repo \/ set_production_repo
  \/ deploy_to_production_repo \/ deploy_to_wc_repo \/ copy_to_wc_repo
  \/ update_wc_repo \/ deploy_to_wp_repo \/ copy_to_wp_repo
  \/ \E code \in ExitCodes : ExecExit(code)
  \/ shell_update_framework \/ shell_update_framework_commit
  \/ shell_git_push_update \/ shell_git_pull_wc_repo \/ shell_git_push_wc_repo
  \/ shell_git_update_wc_repo \/ shell_git_stash \/ shell_git_stash_apply
  \/ shell_composer_install
  \/ deploy_preflight
  \/ shell_git_ensure_clean_working_copy
  \/ \E code \in ExitCodes : GitDiffIndexExit(code)
  \/ \E code \in ExitCodes : GitStatusExit(code)
  \/ search_wt_update_key
  \/ \E outcome \in ReadOutcomes : ReadFileDone(outcome)
  \/ \E m \in LintTasks : LintStart(m)
  \/ \E m \in LintTasks, ok \in BOOLEAN : LintDone(m, ok)
  \/ fetch_latest_wp_wc_versions
  \/ \E r \in Requests, kind \in ResponseKinds : RequestDone(r, kind)
  \/ scripts \/ watch

Next ==
  \/ \E t \in TopLevelTasks : Invoke(t)
  \/ Step

Spec == Init /\ [][Next]_vars

\* every step that can be taken is taken eventually: a started step signals
\* its completion, and the runner acts on it; nothing obliges the command
\* line to name a further task
FairSpec == Spec /\ WF_vars(Step)

(***************************************************************************)
(* Properties                                                              *)
(***************************************************************************)
\* the steps the series of task t has started in the current run, in order
StepsBy(t) ==
  LET sel == SelectSeq(invoked, LAMBDA e : e.by = t)
  IN [i \in 1..Len(sel) |-> sel[i].step]

IndexOf(seq, x) == CHOOSE i \in 1..Len(seq) : seq[i] = x

InvokedSteps == {invoked[i].step : i \in 1..Len(invoked)}

\* C1: in a deploy run, when a step of the deploy list signals failure, the
\* steps the deploy series has started are exactly the list up to that step,
\* and the completion callback of deploy is called at most once and, when it
\* has been called, it received that step's error.
C1_FailFast ==
  /\ doneCalls <= 1
  /\ top = "deploy" =>
       \A k \in 1..Len(failed) :
         failed[k].by = "deploy" =>
           /\ failed[k].step \in Range(DeployTasks)
           /\ StepsBy("deploy")
                = SubSeq(DeployTasks, 1, IndexOf(DeployTasks, failed[k].step))
           /\ (pc # "ret" => doneCalls = 1 /\ doneErr = failed[k].err)

C1_Witness ==
  /\ top = "deploy" /\ pc = "idle" /\ doneCalls = 1
  /\ doneErr.kind = "Command failed"
  /\ \E k \in 1..Len(failed) :
       failed[k].by = "deploy" /\ failed[k].step = "shell:git_push_update"

\* the environment variables the deploy of this configuration requires
RequiredEnv ==
  {"GITHUB_API_KEY", "GITHUB_USERNAME"}
  \cup (IF config.deployType = "wc"
          THEN {"TRELLO_API_KEY", "TRELLO_API_TOKEN"} ELSE {})

\* C2: when deploy is run with a required environment variable unset, no step
\* of the pipeline is started, nothing is spawned, no release is created,
\* options.deploy and options.minify stay unset, and the deploy ends with an
\* error.
C2_EnvPrecondition ==
  (top = "deploy" /\ ~(RequiredEnv \subseteq env)) =>
    /\ pc \in {"call", "ret", "idle"}
    /\ invoked = <<[by |-> "cli", step |-> "deploy"]>>
    /\ spawned = {} /\ releases = <<>>
    /\ ~options.deploy /\ ~options.minify
    /\ (pc = "idle" => doneErr # NoErr)

GroupStarted == \E m \in ParMembers : par[m] # "absent"

LaterSteps ==
  {"replace:version", "clean:prerelease", "build", "github:get_rissue",
   "github:get_wc_issues", "shell:git_push_update", "deploy_to_production_repo",
   "inline:rebuildPluginConfig", "compress", "deploy_create_releases",
   "trello:update_wc_card", "github:docs_issue"}

SkipChecked ==
  /\ "inline:skip_check" \in Range(StepsBy("deploy"))
  /\ ~(pc = "call" /\ cur = "inline:skip_check")

\* C4: once the inline check of a deploy run has run with options.version
\* equal to 'skip', no later step is ever started and the completion callback
\* of deploy is called once, without an error; with any other version the
\* series goes on with replace:version.
C4_SoftSkip ==
  (top = "deploy" /\ SkipChecked) =>
    IF sharedOptions.version = "skip"
      THEN /\ StepsBy("deploy") = SubSeq(DeployTasks, 1, 6)
           /\ InvokedSteps \cap LaterSteps = {}
           /\ stack = <<>> /\ failed = <<>>
           /\ doneCalls <= 1
           /\ (pc # "ret" => doneCalls = 1 /\ doneErr = NoErr)
      ELSE \/ pc = "ret" /\ cur = "inline:skip_check"
           \/ Len(StepsBy("deploy")) >= 7 /\ StepsBy("deploy")[7] = "replace:version"

C4_Witness ==
  /\ top = "deploy" /\ pc = "idle" /\ SkipChecked
  /\ sharedOptions.version = "skip"
  /\ doneCalls = 1 /\ doneErr = NoErr

\* C5: every github:create_release reads the owner and the repo the inline
\* step before it wrote: the dev repository for the first release, the
\* production repository for the second.
C5_OptionsVisible ==
  \A k \in 1..Len(releases) :
    releases[k] = IF k = 1 THEN [owner |-> DevOwner, repo |-> DevName]
                  ELSE [owner |-> ProductionOwner, repo |-> ProductionName]

\* the value a callback must receive for exit code c of command
ExitRule(value, c, command) ==
  /\ c \notin {0, Null} => /\ value # NoErr
                           /\ value.code = c /\ value.command = command
  /\ c = 0 => value = NoErr

\* C6 (as amended): when the command of a shell task that hands its own
\* completion callback to exec exits, that callback receives an error holding
\* the exit code and the command when the code is not zero, and no error when
\* it is zero; the callback of such a task run from the command line is called
\* once. (shell:git_ensure_clean_working_copy hands exec a callback of its own
\* for 'git status' and is left out.)
C6_ExecFailure ==
  /\ (pc = "ret" /\ lastExit.via = "exec" /\ lastExit.task = cur) =>
       /\ ExitRule(res, lastExit.code, lastExit.command)
       /\ lastExit.command \in spawned
  /\ (pc = "idle" /\ lastExit.via = "exec" /\ lastExit.task = top) =>
       /\ doneCalls = 1
       /\ ExitRule(doneErr, lastExit.code, lastExit.command)

\* C6 (as claimed): for every command run through exec, in every shell task
\* that calls exec, the completion callback of the task receives an error
\* holding the exit code and the command when the code is not zero, and no
\* error when it is zero.
C6_EveryExec ==
  /\ (pc = "ret" /\ lastExit.via = "exec" /\ lastExit.task = cur) =>
       ExitRule(res, lastExit.code, lastExit.command)
  /\ (lastExit.via = "exec"
        /\ lastExit.task = "shell:git_ensure_clean_working_copy") =>
       /\ parDone[lastExit.task] = 1
       /\ ExitRule(parErr[lastExit.task], lastExit.code, lastExit.command)

C6_Witness ==
  /\ pc = "ret" /\ cur = "shell:git_push_wc_repo"
  /\ lastExit.via = "exec" /\ lastExit.task = cur /\ lastExit.code = 2
  /\ res.code = 2 /\ res.command = lastExit.command

\* C7: in shell:git_ensure_clean_working_copy, when git diff-index exits with
\* 0 the callback is called once without an error and git status is not run;
\* when it exits with another code git status is run and, whatever that one's
\* exit code, the callback is called once with 'Working copy is not clean!';
\* and then a deploy run starts no step after deploy:preflight.
C7_DirtyWorkingCopy ==
  LET m == "shell:git_ensure_clean_working_copy"
      diff == "git diff-index --quiet HEAD --"
  IN /\ parDone[m] <= 1
     /\ (lastExit.command = diff /\ lastExit.code = 0) =>
          /\ par[m] = "ok" /\ parDone[m] = 1 /\ parErr[m] = NoErr
          /\ "git status" \notin spawned
     /\ (lastExit.command = diff /\ lastExit.code \notin {0, Null}) =>
          /\ par[m] = "status" /\ parDone[m] = 0
          /\ "git status" \in spawned
     /\ (lastExit.command = "git status" /\ lastExit.task = m) =>
          /\ par[m] = "failed" /\ parDone[m] = 1
          /\ parErr[m] = Error("Working copy is not clean!")
     /\ par[m] = "failed" => parErr[m] = Error("Working copy is not clean!")
     /\ (top = "deploy" /\ par[m] \in {"status", "failed"}) =>
          StepsBy("deploy") = <<"deploy:preflight">>

C7_Witness ==
  /\ top = "deploy" /\ pc = "idle"
  /\ par["shell:git_ensure_clean_working_copy"] = "failed"
  /\ doneCalls = 1 /\ doneErr = Error("Working copy is not clean!")
  /\ StepsBy("deploy") = <<"deploy:preflight">>

\* C8: fetch_latest_wp_wc_versions calls its completion callback at most once
\* and never with an error, whatever the requests answer, so the series that
\* runs it never sees it fail.
C8_BestEffort ==
  /\ fetchDone <= 1
  /\ \A k \in 1..Len(failed) : failed[k].step # "fetch_latest_wp_wc_versions"

\* C9: the registry holds one body for shell:update_framework_commit, the one
\* registered later (line 59), and running the task runs that body once.
C9_DuplicateRegistration ==
  LET n == "shell:update_framework_commit"
  IN /\ Cardinality({e \in registry : e[1] = n}) = 1
     /\ \A e \in registry : e[1] = n => e[2] = 59
     /\ top = n => Len(bodyLog) <= 1
     /\ (top = n /\ pc # "call") => bodyLog = <<59>>

C9_Witness ==
  /\ top = "shell:update_framework_commit" /\ pc = "idle"
  /\ bodyLog = <<59>> /\ doneCalls = 1

\* C10: whenever copy_to_wc_repo or copy_to_wp_repo runs a step list without
\* 'build', 'build' has completed successfully earlier in the process.
C10_BuildSkipSound ==
  \A k \in 1..Len(stack) :
    (/\ stack[k].task \in {"copy_to_wc_repo", "copy_to_wp_repo"}
     /\ stack[k].steps[1] # "build") => buildCompleted

\* the positions of `invoked` that started step x
Starts(x) == {i \in 1..Len(invoked) : invoked[i].step = x}

\* C11: in a deploy run 'build' is started at most once and never by
\* copy_to_wc_repo or copy_to_wp_repo; copy:wc_repo and copy:wp_trunk start
\* only after it completed; and once deploy_to_production_repo has completed
\* it has been started exactly once.
C11_BuildOnce ==
  top = "deploy" =>
    /\ Cardinality(Starts("build")) <= 1
    /\ \A i \in Starts("build") : invoked[i].by = "deploy"
    /\ \A c \in {"copy:wc_repo", "copy:wp_trunk"} :
         \A i \in Starts(c) :
           /\ "build" \in succeeded /\ buildCompleted
           /\ \E j \in Starts("build") : j < i
    /\ "deploy_to_production_repo" \in succeeded =>
         Cardinality(Starts("build")) = 1 /\ "build" \in succeeded

C11_Witness ==
  /\ top = "deploy" /\ config.deployType = "wp" /\ rebound
  /\ "deploy_to_production_repo" \in succeeded
  /\ Starts("copy:wp_trunk") # {}

\* C12: in a deploy run the steps start in the order of the list;
\* shell:git_push_update starts only after deploy:preflight, bump,
\* prompt:deploy, replace:version and build succeeded,
\* deploy_to_production_repo only after shell:git_push_update succeeded,
\* compress only after deploy_to_production_repo succeeded and
\* github:create_release only after compress succeeded; github:docs_issue is
\* the last step of the list, and trello:update_wc_card is in it, right
\* after deploy_create_releases, exactly when config.trelloBoard is set and
\* the deploy type is 'wc'.
C12_DeployOrder ==
  /\ Last(DeployTasks) = "github:docs_issue"
  /\ "trello:update_wc_card" \in Range(DeployTasks)
       <=> (config.trelloBoard /\ config.deployType = "wc")
  /\ "trello:update_wc_card" \in Range(DeployTasks) =>
       DeployTasks[IndexOf(DeployTasks, "deploy_create_releases") + 1]
         = "trello:update_wc_card"
  /\ top = "deploy" =>
       /\ StepsBy("deploy") = SubSeq(DeployTasks, 1, Len(StepsBy("deploy")))
       /\ Starts("shell:git_push_update") # {} =>
            {"deploy:preflight", "bump", "prompt:deploy", "replace:version",
             "build"} \subseteq succeeded
       /\ Starts("deploy_to_production_repo") # {} =>
            "shell:git_push_update" \in succeeded
       /\ Starts("compress") # {} => "deploy_to_production_repo" \in succeeded
       /\ Starts("github:create_release") # {} => "compress" \in succeeded

C12_Witness ==
  /\ top = "deploy" /\ config.trelloBoard /\ config.deployType = "wc"
  /\ "trello:update_wc_card" \in succeeded
  /\ Starts("github:docs_issue") # {}

\* the steps deploy_create_releases has started in the current run
ReleaseSteps == StepsBy("deploy_create_releases")

C13_FirstFails ==
  /\ config.deployType = "wc" /\ config.production
  /\ pc = "idle" /\ Len(ReleaseSteps) = 2
  /\ \E k \in 1..Len(failed) : failed[k].by = "deploy_create_releases"


\* the "tested up to" values of an options object
TestedUpTo(o) == <<o.tested_up_to_wp_version, o.tested_up_to_wc_version>>

\* C14: once fetch_latest_wp_wc_versions has signalled completion, no step
\* changes options.tested_up_to_wp_version or options.tested_up_to_wc_version.
C14_FanIn ==
  [][fetchDone >= 1 => TestedUpTo(options)' = TestedUpTo(options)]_vars

\* the value the completion callback of the current top-level task has
\* received, or is about to receive
Outcome == IF pc = "idle" THEN doneErr ELSE res

\* C15: when util.isDeployable() answers false in a deploy run, the task ends
\* with the 'Plugin is not deployable' error, no step is started, nothing is
\* spawned and options.deploy and options.minify stay as they were (unset);
\* util.isDeployable() is called only after the environment check passed.
C15_NotDeployable ==
  top = "deploy" =>
    /\ deployable = "no" =>
         /\ pc \in {"ret", "idle"} /\ stack = <<>>
         /\ Outcome = Error("Plugin is not deployable")
         /\ invoked = <<[by |-> "cli", step |-> "deploy"]>>
         /\ spawned = {} /\ releases = <<>>
         /\ ~sharedOptions.deploy /\ ~sharedOptions.minify
         /\ sharedOptions = mergedOptions /\ ~rebound
         /\ doneCalls = (IF pc = "idle" THEN 1 ELSE 0)
    /\ deployable # "unread" => validateEnvVariables = NoErr
    /\ (validateEnvVariables # NoErr /\ pc # "call") =>
         /\ deployable = "unread"
         /\ Outcome = validateEnvVariables

C15_Witness ==
  /\ top = "deploy" /\ pc = "idle" /\ deployable = "no"
  /\ doneCalls = 1 /\ doneErr = Error("Plugin is not deployable")

\* C16: deploy_to_production_repo runs deploy_to_wc_repo alone for type 'wc'
\* and deploy_to_wp_repo alone for type 'wp'; for any other type it runs no
\* repository step and signals success, so that it never fails the series
\* that runs it.
C16_Dispatch ==
  /\ Starts("deploy_to_wc_repo") # {} => config.deployType = "wc"
  /\ Starts("deploy_to_wp_repo") # {} => config.deployType = "wp"
  /\ config.deployType = "none" =>
       /\ StepsBy("deploy_to_production_repo") = <<>>
       /\ (pc = "ret" /\ cur = "deploy_to_production_repo") => res = NoErr
       /\ \A k \in 1..Len(failed) : failed[k].step # "deploy_to_production_repo"

\* C17: a shell step signals success only when its command exited with code
\* 0: this holds for the callback exec is given, and for
\* shell:git_ensure_clean_working_copy and the exit of git diff-index.
C17_SuccessOnlyOnZero ==
  /\ (pc = "ret" /\ lastExit.via = "exec" /\ lastExit.task = cur /\ res = NoErr)
       => lastExit.code = 0
  /\ (/\ lastExit.task = "shell:git_ensure_clean_working_copy"
      /\ lastExit.via = "spawn"
      /\ par["shell:git_ensure_clean_working_copy"] = "ok") => lastExit.code = 0

\* the lint was left out of the step list of the current run of scripts
LintOmitted == StepsBy("scripts") = <<"compile:scripts">>

\* C18: the step list of scripts always ends with compile:scripts; in a run
\* of scripts, lint:scripts is left out exactly when nothing is being watched
\* and lint:scripts has run earlier in the process; when it is in the list,
\* compile:scripts starts only after it succeeded, and its failure prevents
\* the compile; a run of scripts that succeeds has started compile:scripts.
C18_LintSkipping ==
  /\ Last(ScriptsTasks) = "compile:scripts"
  /\ (pc = "call" /\ cur = "scripts" /\ ~isWatching) =>
       (lastRun <=> Len(ran) >= 2)
  /\ (top = "scripts" /\ StepsBy("scripts") # <<>>) =>
       /\ LintOmitted <=> (~isWatching /\ Len(ran) >= 2)
       /\ ~LintOmitted =>
            /\ StepsBy("scripts")[1] = "lint:scripts"
            /\ Starts("compile:scripts") # {} => "lint:scripts" \in succeeded
            /\ (\E k \in 1..Len(failed) : failed[k].step = "lint:scripts")
                 => Starts("compile:scripts") = {}
       /\ isWatching => ~LintOmitted
  /\ (top = "scripts" /\ pc = "idle" /\ doneErr = NoErr) =>
       "compile:scripts" \in succeeded

C18_Witness ==
  /\ top = "scripts" /\ ~isWatching /\ pc = "idle" /\ LintOmitted
  /\ lastRun /\ doneErr = NoErr

C18_WatchingLints ==
  /\ top = "scripts" /\ isWatching /\ Len(ran) = 3 /\ lastRun
  /\ pc = "wait" /\ cur = "lint:scripts"

\* the shell tasks that run a command through exec with their own callback
ExecTasks ==
  {"shell:update_framework", "shell:update_framework_commit",
   "shell:git_push_update", "shell:git_pull_wc_repo", "shell:git_push_wc_repo",
   "shell:git_update_wc_repo", "shell:git_stash", "shell:git_stash_apply",
   "shell:composer_install"}

\* C20: every shell task hands exec one command string, so that spawn never
\* rejects the command; a shell task run from the command line calls its
\* completion callback once; shell:composer_install without composer.json
\* signals success and spawns nothing.
C20_SingleString ==
  /\ (pc = "ret" /\ cur \in ExecTasks) =>
       res # Error("TypeError: The file argument must be of type string")
  /\ (pc = "idle" /\ top \in ExecTasks) =>
       /\ doneCalls = 1
       /\ (top = "shell:composer_install" /\ spawned = {}) => doneErr = NoErr

\* a run of deploy has been invoked
DeployInvoked == top = "deploy" /\ pc = "call" /\ cur = "deploy" /\ stack = <<>>

\* the run of deploy has ended: its completion callback has been called once
DeployEnded == top = "deploy" /\ pc = "idle" /\ doneCalls = 1

\* C19: the completion callback of the top-level task is called at most once,
\* and every run of deploy ends: when every started step signals completion,
\* the callback of deploy is eventually called, with success or with one
\* error.
C19_Termination ==
  /\ [](doneCalls <= 1)
  /\ DeployInvoked ~> DeployEnded

\* a run of deploy ends, or the process dies of an exception nothing caught
C19_EndsOrCrashes == DeployInvoked ~> (DeployEnded \/ pc = "crashed")

====
